---------------------------- MODULE Spec2Model ----------------------------
(***************************************************************************)
(* Model of poverty_dashboard/app.py: the cached load_data() enrichment,   *)
(* the static regional summary table and the per-page derivations          *)
(* (rank, deviation, top/bottom 5, grouped statistics, poor-population     *)
(* estimate).  One behaviour is a Streamlit session: the script runs from  *)
(* the top (load_data, then the selected page), and every interaction      *)
(* reruns it.                                                              *)
(*                                                                         *)
(* Percentages are kept in tenths of a point (15.3 is 153); the statistics *)
(* table, rounded to two decimals by the code, is kept in hundredths.      *)
(* A missing number (NaN) is NaN, a missing label is NaNStr.               *)
(***************************************************************************)
EXTENDS Integers, Sequences, FiniteSets, TLC

VARIABLES
    csv_file,      \* data/poverty_tunisia.csv: [present, rows]
    geo_file,      \* geo/tunisia_governorates.geojson: [present]
    cache,         \* st.cache_data entry of load_data: [set, df, geo]
    df_poverty,    \* module global of the current script run: [isNone, rows]
    geojson_data,  \* module global of the current script run: [isNone]
    load_error,    \* st.error(...) was emitted by load_data
    pc,            \* position of the script run: "start", "loaded", "rendered"
    view           \* what the selected page rendered in this run

vars == <<csv_file, geo_file, cache, df_poverty, geojson_data, load_error, pc, view>>

NaN == -1000000
NaNStr == "NaN"

----------------------------------------------------------------------------
(* Bounds and sampled inputs of the model.                                 *)

\* longest raw table drawn freely from NameSample x RateSample
MaxRows == 3

\* governorate names a freely drawn table may hold: three of one region and
\* one spelling (the summary table's) that is no key of region_map
NameSample == {"Tunis", "Ariana", "Ben Arous", "Seliana"}

\* rates a raw row may hold (tenths of a point), NaN for an empty cell
RateSample == {NaN, 100, 200, 300}

\* rates of the one-row-per-region tables
RegionRateSample == {100, 153, 300}

----------------------------------------------------------------------------
(* Static tables of the program.                                           *)

region_map ==
    [n \in {"Tunis", "Ariana", "Ben Arous", "Manouba"} |-> "Grand Tunis"] @@
    [n \in {"Nabeul", "Zaghouan", "Bizerte"} |-> "Nord-Est"] @@
    [n \in {"Beja", "Jendouba", "Le Kef", "Siliana"} |-> "Nord-Ouest"] @@
    [n \in {"Sousse", "Monastir", "Mahdia", "Sfax"} |-> "Centre-Est"] @@
    [n \in {"Kairouan", "Kasserine", "Sidi Bouzid"} |-> "Centre-Ouest"] @@
    [n \in {"Gabes", "Medenine", "Tataouine"} |-> "Sud-Est"] @@
    [n \in {"Gafsa", "Tozeur", "Kebili"} |-> "Sud-Ouest"]

region_summary ==
    [Region |-> <<"Grand Tunis", "Nord-Est", "Nord-Ouest", "Centre-Est",
                  "Centre-Ouest", "Sud-Est", "Sud-Ouest">>,
     Taux_Pauvrete |-> <<61, 119, 258, 117, 293, 178, 182>>,
     Population |-> <<2719000, 1533064, 1378596, 2580032, 1439714, 1003273, 602204>>,
     Gouvernorats |-> <<"Tunis, Ariana, Ben Arous, Manouba",
                        "Nabeul, Zaghouan, Bizerte",
                        "Beja, Jendouba, Le Kef, Seliana",
                        "Sousse, Monastir, Mahdia, Sfax",
                        "Kairouan, Kasserine, Sidi Bouzid",
                        "Gabes, Médenine, Tataouine",
                        "Gafsa, Tozeur, Kebili">>]

\* df_regions = pd.DataFrame(region_summary): one row per list position
df_regions ==
    [i \in 1..Len(region_summary.Region) |->
        [Region |-> region_summary.Region[i],
         Taux_Pauvrete |-> region_summary.Taux_Pauvrete[i],
         Population |-> region_summary.Population[i],
         Gouvernorats |-> region_summary.Gouvernorats[i]]]

name_mapping ==
    ("Ben Arous" :> "BenArous(TunisSud)") @@ ("Beja" :> "Béja") @@
    ("Gabes" :> "Gabès") @@ ("Kasserine" :> "Kassérine") @@
    ("Le Kef" :> "LeKef") @@ ("Manouba" :> "Manubah") @@
    ("Medenine" :> "Médenine") @@ ("Sidi Bouzid" :> "SidiBouZid")

\* the national rate written as a literal on both views, in tenths
NationalRate == 153

\* n of nlargest / nsmallest
TopN == 5

\* Python's order of the strings the model sorts (str comparison by code point)
NameOrder ==
    <<"Ariana", "Beja", "Ben Arous", "Bizerte", "Gabes", "Gafsa", "Jendouba",
      "Kairouan", "Kasserine", "Kebili", "Le Kef", "Mahdia", "Manouba",
      "Medenine", "Monastir", "Nabeul", "Seliana", "Sfax", "Sidi Bouzid",
      "Siliana", "Sousse", "Tataouine", "Tozeur", "Tunis", "Zaghouan">>

RegionOrder ==
    <<"Centre-Est", "Centre-Ouest", "Grand Tunis", "Nord-Est", "Nord-Ouest",
      "Sud-Est", "Sud-Ouest">>

StrRank(order, s) == CHOOSE i \in 1..Len(order) : order[i] = s

----------------------------------------------------------------------------
(* IEEE-754 binary64 arithmetic, as far as line 250 uses it.  A natural    *)
(* number is a sequence of base-256 limbs, most significant first, or the  *)
(* sequence of its bits; a float is [m, e] with value m * 2^e, m the bits  *)
(* of the significand (at most Precision of them).                         *)

Precision == 53
Base == 256
LimbBits == 8
GuardLimbs == 8

RECURSIVE ToLimbs(_)
ToLimbs(n) == IF n = 0 THEN <<>> ELSE Append(ToLimbs(n \div Base), n % Base)

RECURSIVE FromLimbs(_)
FromLimbs(b) ==
    IF b = <<>> THEN 0
    ELSE Base * FromLimbs(SubSeq(b, 1, Len(b) - 1)) + b[Len(b)]

\* the bits of a limb sequence, leading zeros removed
BitsOf(b) ==
    LET n == LimbBits * Len(b)
        bit(i) == (b[((i - 1) \div LimbBits) + 1]
                       \div (2 ^ (LimbBits - 1 - ((i - 1) % LimbBits)))) % 2
        ones == {i \in 1..n : bit(i) = 1}
    IN  IF ones = {} THEN <<>>
        ELSE LET first == CHOOSE i \in ones : \A j \in ones : i <= j
             IN  [i \in 1..(n - first + 1) |-> bit(first + i - 1)]

\* the limbs of a bit sequence
LimbsOf(bits) ==
    LET n == Len(bits)
        nl == (n + LimbBits - 1) \div LimbBits
        pad == LimbBits * nl - n
        at(i) == IF i < 1 THEN 0 ELSE bits[i]
        limb(j) == LET o == LimbBits * (j - 1) - pad
                   IN  128 * at(o + 1) + 64 * at(o + 2) + 32 * at(o + 3)
                       + 16 * at(o + 4) + 8 * at(o + 5) + 4 * at(o + 6)
                       + 2 * at(o + 7) + at(o + 8)
    IN  [j \in 1..nl |-> limb(j)]

\* b * k + carry, on limbs
RECURSIVE MulSmall(_, _, _)
MulSmall(b, k, carry) ==
    IF b = <<>> THEN ToLimbs(carry)
    ELSE LET t == b[Len(b)] * k + carry
         IN  Append(MulSmall(SubSeq(b, 1, Len(b) - 1), k, t \div Base), t % Base)

\* long division of the limbs b by d: [q, r]
RECURSIVE DivSmall(_, _)
DivSmall(b, d) ==
    IF b = <<>> THEN [q |-> <<>>, r |-> 0]
    ELSE LET p == DivSmall(SubSeq(b, 1, Len(b) - 1), d)
             t == Base * p.r + b[Len(b)]
         IN  [q |-> Append(p.q, t \div d), r |-> t % d]

\* round the natural with bits b, times 2^e, to Precision bits, ties to even
RoundNearestEven(b, e) ==
    IF Len(b) <= Precision THEN [m |-> b, e |-> e]
    ELSE LET drop == Len(b) - Precision
             hi == SubSeq(b, 1, Precision)
             lo == SubSeq(b, Precision + 1, Len(b))
             rest == \E i \in 2..Len(lo) : lo[i] = 1
             up == lo[1] = 1 /\ (rest \/ hi[Precision] = 1)
             m == IF up THEN BitsOf(MulSmall(LimbsOf(hi), 1, 1)) ELSE hi
         IN  IF Len(m) > Precision
             THEN [m |-> SubSeq(m, 1, Precision), e |-> e + drop + 1]
             ELSE [m |-> m, e |-> e + drop]

\* the float nearest to (b * 2^e) / d, b a bit sequence
DivRounded(b, e, d) ==
    LET p == DivSmall(LimbsOf(b) \o [i \in 1..GuardLimbs |-> 0], d)
        sticky == IF p.r = 0 THEN 0 ELSE 1
    IN  RoundNearestEven(Append(BitsOf(p.q), sticky),
                         e - LimbBits * GuardLimbs - 1)

\* the float of a decimal literal with one decimal, given in tenths
FloatOfTenths(t) == DivRounded(BitsOf(ToLimbs(t)), 0, 10)

\* x * float(n), n an integer below 2^53
FloatMulInt(x, n) == RoundNearestEven(BitsOf(MulSmall(LimbsOf(x.m), n, 0)), x.e)

FloatDivInt(x, d) == DivRounded(x.m, x.e, d)

\* int(x) for 0 <= x < 2^31: truncation
IntOfFloat(x) ==
    IF Len(x.m) + x.e <= 0 THEN 0
    ELSE IF x.e >= 0 THEN FromLimbs(LimbsOf(x.m)) * 2 ^ x.e
    ELSE FromLimbs(LimbsOf(SubSeq(x.m, 1, Len(x.m) + x.e)))

\* int(region_data['Population'] * region_data['Taux_Pauvreté'] / 100)
PoorPopulation(population, taux) ==
    IntOfFloat(FloatDivInt(FloatMulInt(FloatOfTenths(taux), population), 100))

poor_population_of ==
    [i \in 1..Len(df_regions) |->
        PoorPopulation(df_regions[i].Population, df_regions[i].Taux_Pauvrete)]

----------------------------------------------------------------------------
(* Data frames: a frame is the sequence of its rows, a row a record.       *)

None == [isNone |-> TRUE, rows |-> <<>>]
Frame(rows) == [isNone |-> FALSE, rows |-> rows]

\* head(n)
Head_n(s, n) == SubSeq(s, 1, IF Len(s) < n THEN Len(s) ELSE n)

\* where row i goes when the rows are put in ascending order of key, rows of
\* equal key staying in their original order
Position(key, i) ==
    1 + Cardinality({j \in 1..Len(key) :
            key[j] < key[i] \/ (key[j] = key[i] /\ j < i)})

\* the rows of s in ascending order of key (key[i] the sort key of s[i])
StableSort(s, key) ==
    CHOOSE o \in {[k \in 1..Len(r) |->
                     r[CHOOSE i \in 1..Len(r) : Position(q, i) = k]] :
                  r \in {s}, q \in {key}} : TRUE

\* comparison of two numbers either of which may be NaN: False on NaN
Gt(a, b) == a # NaN /\ b # NaN /\ a > b

RECURSIVE SumSeq(_)
SumSeq(s) == IF s = <<>> THEN 0 ELSE s[1] + SumSeq(Tail(s))

\* df_poverty.rename(columns={'Governorate': 'Name'})
Rename(raw) ==
    [i \in 1..Len(raw) |->
        [Name |-> raw[i].Governorate, Poverty_Rate |-> raw[i].Poverty_Rate]]

\* df_poverty['Type'] = 'Gouvernorat'
WithType(rows) ==
    [i \in 1..Len(rows) |->
        [Name |-> rows[i].Name, Poverty_Rate |-> rows[i].Poverty_Rate,
         Type |-> "Gouvernorat"]]

\* MapRegion with one label of the dictionary misspelt
MapRegionMisspelt(name) ==
    IF name \notin DOMAIN region_map THEN NaNStr
    ELSE IF region_map[name] = "Nord-Est" THEN "Nord Est"
    ELSE region_map[name]

\* Series.map(dict): the value of the key, NaN for a name that is no key
MapRegion(name) ==
    IF name \in DOMAIN region_map THEN region_map[name] ELSE NaNStr

\* df_poverty['Region'] = df_poverty['Name'].map(region_map)
WithRegion(rows) ==
    [i \in 1..Len(rows) |->
        [Name |-> rows[i].Name, Poverty_Rate |-> rows[i].Poverty_Rate,
         Type |-> rows[i].Type, Region |-> MapRegion(rows[i].Name)]]

\* pd.DataFrame(columns=['Name', 'Governorate', 'Region', 'Poverty_Rate', 'Type'])
df_delegations == <<>>

\* Concat with a placeholder that brings one empty delegation row
ConcatPlaceholderRow(a, b) ==
    [i \in 1..Len(a) |->
        [Name |-> a[i].Name, Poverty_Rate |-> a[i].Poverty_Rate,
         Type |-> a[i].Type, Region |-> a[i].Region, Governorate |-> NaNStr]]
    \o b
    \o <<[Name |-> NaNStr, Poverty_Rate |-> NaN, Type |-> "Délégation",
          Region |-> NaNStr, Governorate |-> NaNStr]>>

\* pd.concat([df_poverty, df_delegations], ignore_index=True): the rows of
\* both, and the column only df_delegations has, empty in every row of a
Concat(a, b) ==
    [i \in 1..Len(a) |->
        [Name |-> a[i].Name, Poverty_Rate |-> a[i].Poverty_Rate,
         Type |-> a[i].Type, Region |-> a[i].Region, Governorate |-> NaNStr]]
    \o b

\* the try block of load_data once both files are read
Enrich(raw) == Concat(WithRegion(WithType(Rename(raw))), df_delegations)

\* load_data(): (df_poverty, geojson_data), or (None, None) after st.error
\* when either open() raises FileNotFoundError
load_data(csv, geo) ==
    IF csv.present /\ geo.present
    THEN [df |-> Frame(Enrich(csv.rows)), geo |-> [isNone |-> FALSE], error |-> FALSE]
    ELSE [df |-> None, geo |-> [isNone |-> TRUE], error |-> TRUE]

----------------------------------------------------------------------------
(* The raw tables the model reads.                                         *)

RawRow(name, rate) == [Governorate |-> name, Poverty_Rate |-> rate]

\* every table of at most MaxRows rows, one row per name
FreeTables ==
    UNION {{[i \in 1..n |-> RawRow(t[i][1], t[i][2])] :
              t \in {u \in [1..n -> NameSample \X RateSample] :
                        \A i, j \in 1..n : i # j => u[i][1] # u[j][1]}} :
           n \in 0..MaxRows}

\* the first governorate region_map lists for each region
RegionReps == <<"Tunis", "Nabeul", "Beja", "Sousse", "Kairouan", "Gabes", "Gafsa">>

\* one row per region, in the order of the summary table
RegionTables ==
    {[i \in 1..Len(RegionReps) |-> RawRow(RegionReps[i], r[i])] :
        r \in [1..Len(RegionReps) -> RegionRateSample]}

RawTables == FreeTables \cup RegionTables

\* the files a session may find: any table beside the boundary file, and
\* either file missing (load_data then never looks at the rows it read)
Files ==
    {[csv |-> [present |-> TRUE, rows |-> t], geo |-> [present |-> TRUE]] :
        t \in RawTables}
    \cup {[csv |-> [present |-> FALSE, rows |-> <<>>], geo |-> [present |-> g]] :
            g \in BOOLEAN}
    \cup {[csv |-> [present |-> TRUE, rows |-> t], geo |-> [present |-> FALSE]] :
            t \in {u \in RawTables : Len(u) <= 1}}

----------------------------------------------------------------------------
(* The session.                                                            *)

Pages == {"Vue d'ensemble", "Analyse par Région", "Analyse par Gouvernorat",
          "Détails des Délégations", "Comparaisons & Corrélations"}

BlankView ==
    [page |-> "", aborted |-> FALSE,
     map_shown |-> FALSE, gov_data_for_map |-> <<>>,
     selected_region |-> "", region_taux |-> 0, region_population |-> 0,
     poor_population |-> 0, region_gouvernorats |-> "", region_diff |-> 0,
     region_msg |-> "",
     gov_shown |-> FALSE, selected_gov |-> "", sort_by |-> "", gov_rate |-> 0,
     gov_region |-> "", rank |-> 0, diff |-> 0, gov_data_sorted |-> <<>>,
     top5_poor |-> <<>>, top5_rich |-> <<>>,
     stats_shown |-> FALSE, stats |-> <<>>]

Init ==
    /\ \E f \in Files : csv_file = f.csv /\ geo_file = f.geo
    /\ cache = [set |-> FALSE, df |-> None, geo |-> [isNone |-> TRUE], error |-> FALSE]
    /\ df_poverty = None
    /\ geojson_data = [isNone |-> TRUE]
    /\ load_error = FALSE
    /\ pc = "start"
    /\ view = BlankView

\* cache_data whose stored table comes back with its rows in reverse order
cache_data_drift(c, csv, geo) ==
    IF c.set
    THEN [df |-> [isNone |-> c.df.isNone,
                  rows |-> [i \in 1..Len(c.df.rows) |->
                               c.df.rows[Len(c.df.rows) + 1 - i]]],
          geo |-> c.geo, error |-> c.error]
    ELSE load_data(csv, geo)

\* @st.cache_data: the body of load_data runs on the first call; every later
\* call gets a copy of the value stored then (and the replayed st.error)
cache_data(c, csv, geo) ==
    IF c.set
    THEN [df |-> c.df, geo |-> c.geo, error |-> c.error]
    ELSE load_data(csv, geo)

\* line 69: df_poverty, geojson_data = load_data(), under @st.cache_data
LoadData ==
    /\ pc = "start"
    /\ LET r == cache_data(cache, csv_file, geo_file)
       IN  /\ df_poverty' = r.df
           /\ geojson_data' = r.geo
           /\ load_error' = r.error
           /\ cache' = [set |-> TRUE, df |-> r.df, geo |-> r.geo, error |-> r.error]
    /\ pc' = "loaded"
    /\ UNCHANGED <<csv_file, geo_file, view>>

\* an interaction: Streamlit runs the script again from the top
Rerun ==
    /\ pc = "rendered"
    /\ pc' = "start"
    /\ view' = BlankView
    /\ df_poverty' = None
    /\ geojson_data' = [isNone |-> TRUE]
    /\ load_error' = FALSE
    /\ UNCHANGED <<csv_file, geo_file, cache>>

----------------------------------------------------------------------------
(* Vue d'ensemble: the choropleth frame.                                   *)

IsGouvernorat(row) == row.Type = "Gouvernorat"

\* Series.replace(name_mapping)
Replace(name) ==
    IF name \in DOMAIN name_mapping THEN name_mapping[name] ELSE name

\* lines 165-177: the filtered copy, display_name added, Name replaced
MapFrame(rows) ==
    LET copy == SelectSeq(rows, IsGouvernorat)
    IN  [i \in 1..Len(copy) |->
            [Name |-> Replace(copy[i].Name), display_name |-> copy[i].Name,
             Poverty_Rate |-> copy[i].Poverty_Rate, Type |-> copy[i].Type,
             Region |-> copy[i].Region, Governorate |-> copy[i].Governorate]]

\* line 162: if df_poverty is not None and geojson_data is not None
MapGuard == ~df_poverty.isNone /\ ~geojson_data.isNone

\* SourceAfterWrites for a copy that is a view of df: the writes reach df
SourceAfterViewWrites(df, written) == Frame(written)

\* df[mask].copy() is a frame of its own: after the column writes of lines
\* 166 and 177 on the copy, df is what it was
SourceAfterWrites(df, written) == df

RenderOverview ==
    /\ pc = "loaded"
    /\ pc' = "rendered"
    /\ view' = IF ~MapGuard
               THEN [BlankView EXCEPT !.page = "Vue d'ensemble"]
               ELSE IF df_poverty.isNone
               THEN \* None['Type'] raises TypeError
                    [BlankView EXCEPT !.page = "Vue d'ensemble", !.aborted = TRUE]
               ELSE [BlankView EXCEPT !.page = "Vue d'ensemble",
                                      !.map_shown = TRUE,
                                      !.gov_data_for_map = MapFrame(df_poverty.rows)]
    /\ df_poverty' = IF MapGuard /\ ~df_poverty.isNone
                     THEN SourceAfterWrites(df_poverty, MapFrame(df_poverty.rows))
                     ELSE df_poverty
    /\ UNCHANGED <<csv_file, geo_file, cache, geojson_data, load_error>>

----------------------------------------------------------------------------
(* Analyse par Région.                                                     *)

\* df_regions[df_regions['Région'] == selected_region].iloc[0]
region_data(selected_region) ==
    df_regions[CHOOSE i \in 1..Len(df_regions) :
                 /\ df_regions[i].Region = selected_region
                 /\ \A j \in 1..(i - 1) : df_regions[j].Region # selected_region]

\* line 250
poor_population(rd) ==
    poor_population_of[CHOOSE i \in 1..Len(df_regions) : df_regions[i] = rd]

\* Deviation from the mean of the loaded table's rates instead of the literal
DeviationFromTableMean(rate) ==
    LET has(row) == row.Poverty_Rate # NaN
        rated == SelectSeq(df_poverty.rows, has)
        total == SumSeq([i \in 1..Len(rated) |-> rated[i].Poverty_Rate])
    IN  IF rate = NaN THEN NaN
        ELSE IF rated = <<>> THEN rate - NationalRate
        ELSE rate - (total \div Len(rated))

\* lines 262 and 417: the rate minus the literal 15.3
Deviation(rate) == IF rate = NaN THEN NaN ELSE rate - NationalRate

\* lines 263-266
RegionMessage(d) == IF d > 0 THEN "au-dessus" ELSE "en dessous"

RenderRegion ==
    /\ pc = "loaded"
    /\ pc' = "rendered"
    /\ \E selected_region \in {df_regions[i].Region : i \in 1..Len(df_regions)} :
         LET rd == region_data(selected_region)
             d == Deviation(rd.Taux_Pauvrete)
         IN  view' = [BlankView EXCEPT !.page = "Analyse par Région",
                                       !.selected_region = selected_region,
                                       !.region_taux = rd.Taux_Pauvrete,
                                       !.region_population = rd.Population,
                                       !.poor_population = poor_population(rd),
                                       !.region_gouvernorats = rd.Gouvernorats,
                                       !.region_diff = d,
                                       !.region_msg = RegionMessage(d)]
    /\ UNCHANGED <<csv_file, geo_file, cache, df_poverty, geojson_data, load_error>>

----------------------------------------------------------------------------
(* Analyse par Gouvernorat.                                                *)

\* gov_data[gov_data['Name'] == selected_gov].iloc[0]
gov_info(gov_data, selected_gov) ==
    gov_data[CHOOSE i \in 1..Len(gov_data) :
               /\ gov_data[i].Name = selected_gov
               /\ \A j \in 1..(i - 1) : gov_data[j].Name # selected_gov]

\* Rank counting the rates greater than or equal to the rate
RankGreaterOrEqual(gov_data, rate) ==
    SumSeq([i \in 1..Len(gov_data) |->
               IF gov_data[i].Poverty_Rate # NaN /\ rate # NaN
                  /\ gov_data[i].Poverty_Rate >= rate THEN 1 ELSE 0]) + 1

\* line 414: (gov_data['Poverty_Rate'] > gov_info['Poverty_Rate']).sum() + 1
Rank(gov_data, rate) ==
    SumSeq([i \in 1..Len(gov_data) |->
               IF Gt(gov_data[i].Poverty_Rate, rate) THEN 1 ELSE 0]) + 1

\* the key of sort_values('Poverty_Rate', ascending=False): NaN last
RateDescending(rows) ==
    [i \in 1..Len(rows) |->
        IF rows[i].Poverty_Rate = NaN THEN 1 ELSE 0 - rows[i].Poverty_Rate]

\* the key of an ascending sort of rows that all have a rate
RateAscending(rows) == [i \in 1..Len(rows) |-> rows[i].Poverty_Rate]

\* the key of sort_values('Name')
NameAscending(rows) == [i \in 1..Len(rows) |-> StrRank(NameOrder, rows[i].Name)]

\* lines 423-426
gov_data_sorted(gov_data, sort_by) ==
    IF sort_by = "Taux de Pauvreté"
    THEN StableSort(gov_data, RateDescending(gov_data))
    ELSE StableSort(gov_data, NameAscending(gov_data))

\* the columns ['Name', 'Poverty_Rate', 'Region'] under the frame's index
Projected(rows) ==
    [i \in 1..Len(rows) |->
        [idx |-> i - 1, Name |-> rows[i].Name,
         Poverty_Rate |-> rows[i].Poverty_Rate, Region |-> rows[i].Region]]

HasRate(row) == row.Poverty_Rate # NaN
HasNoRate(row) == row.Poverty_Rate = NaN

\* nlargest taking the first n rows of the frame as they come
nlargestUnsorted(rows, n) == Head_n(Projected(rows), n)

\* DataFrame.nlargest(n, 'Poverty_Rate'): the n largest rates, equal rates in
\* frame order, rows without a rate only when the others run out
nlargest(rows, n) ==
    LET rated == SelectSeq(Projected(rows), HasRate)
    IN  Head_n(StableSort(rated, RateDescending(rated))
                   \o SelectSeq(Projected(rows), HasNoRate), n)

nsmallest(rows, n) ==
    LET rated == SelectSeq(Projected(rows), HasRate)
    IN  Head_n(StableSort(rated, RateAscending(rated))
                   \o SelectSeq(Projected(rows), HasNoRate), n)

SortBy == {"Alphabétique", "Taux de Pauvreté"}

\* the governorate page without its guard
GovGuardMissing == TRUE

\* line 393: if df_poverty is not None
GovGuard == ~df_poverty.isNone

RenderGovernorate ==
    /\ pc = "loaded"
    /\ pc' = "rendered"
    /\ IF ~GovGuard
       THEN view' = [BlankView EXCEPT !.page = "Analyse par Gouvernorat"]
       ELSE IF df_poverty.isNone
       THEN \* None['Type'] raises TypeError
            view' = [BlankView EXCEPT !.page = "Analyse par Gouvernorat",
                                      !.aborted = TRUE]
       ELSE \E gov_data \in {SelectSeq(df_poverty.rows, IsGouvernorat)} :
              IF gov_data = <<>>
              THEN \* the selectbox has no option: .iloc[0] raises IndexError
                   view' = [BlankView EXCEPT !.page = "Analyse par Gouvernorat",
                                             !.aborted = TRUE]
              ELSE \E top5_poor \in {nlargest(gov_data, TopN)},
                      top5_rich \in {nsmallest(gov_data, TopN)},
                      sorted \in {[s \in SortBy |-> gov_data_sorted(gov_data, s)]} :
                   \E selected_gov \in {gov_data[i].Name : i \in 1..Len(gov_data)},
                      sort_by \in SortBy :
                     LET gi == gov_info(gov_data, selected_gov)
                     IN  view' = [BlankView EXCEPT
                            !.page = "Analyse par Gouvernorat",
                            !.gov_shown = TRUE,
                            !.selected_gov = selected_gov,
                            !.sort_by = sort_by,
                            !.gov_rate = gi.Poverty_Rate,
                            !.gov_region = gi.Region,
                            !.rank = Rank(gov_data, gi.Poverty_Rate),
                            !.diff = Deviation(gi.Poverty_Rate),
                            !.gov_data_sorted = sorted[sort_by],
                            !.top5_poor = top5_poor,
                            !.top5_rich = top5_rich]
    /\ UNCHANGED <<csv_file, geo_file, cache, df_poverty, geojson_data, load_error>>

----------------------------------------------------------------------------
(* Détails des Délégations: two static messages.                           *)

RenderDelegations ==
    /\ pc = "loaded"
    /\ pc' = "rendered"
    /\ view' = [BlankView EXCEPT !.page = "Détails des Délégations"]
    /\ UNCHANGED <<csv_file, geo_file, cache, df_poverty, geojson_data, load_error>>

----------------------------------------------------------------------------
(* Comparaisons & Corrélations: the statistics table, in hundredths.       *)

\* the integer nearest to num / den, a tie going to the even one: round(2)
RoundHalfEven(num, den) ==
    LET q == num \div den
        r == num % den
    IN  IF 2 * r > den \/ (2 * r = den /\ q % 2 = 1) THEN q + 1 ELSE q

\* the largest integer whose square is at most n, between lo and hi
RECURSIVE ISqrt(_, _, _)
ISqrt(n, lo, hi) ==
    IF lo >= hi THEN lo
    ELSE LET mid == (lo + hi + 1) \div 2
         IN  IF mid * mid <= n THEN ISqrt(n, mid, hi) ELSE ISqrt(n, lo, mid - 1)

\* GroupRates without the grouping: the rates of every row
GroupRatesAllRows(rows, region) ==
    LET kept == SelectSeq(rows, HasRate)
    IN  [i \in 1..Len(kept) |-> kept[i].Poverty_Rate]

\* the rates of one group, NaN skipped (skipna), in frame order
GroupRates(rows, region) ==
    LET member(row) == row.Region = region /\ row.Poverty_Rate # NaN
        kept == SelectSeq(rows, member)
    IN  [i \in 1..Len(kept) |-> kept[i].Poverty_Rate]

Mean(x) == IF x = <<>> THEN NaN ELSE RoundHalfEven(10 * SumSeq(x), Len(x))

Median(x) ==
    LET n == Len(x)
        o == StableSort(x, x)
    IN  IF n = 0 THEN NaN
        ELSE IF n % 2 = 1 THEN 10 * o[(n + 1) \div 2]
        ELSE 5 * (o[n \div 2] + o[(n \div 2) + 1])

Min(x) ==
    IF x = <<>> THEN NaN
    ELSE 10 * (CHOOSE v \in {x[i] : i \in 1..Len(x)} :
                  \A i \in 1..Len(x) : v <= x[i])

Max(x) ==
    IF x = <<>> THEN NaN
    ELSE 10 * (CHOOSE v \in {x[i] : i \in 1..Len(x)} :
                  \A i \in 1..Len(x) : v >= x[i])

\* the sample standard deviation (ddof = 1), NaN below two values
Std(x) ==
    LET n == Len(x)
        a == n * SumSeq([i \in 1..n |-> x[i] * x[i]]) - SumSeq(x) * SumSeq(x)
        d == n * (n - 1)
        s == ISqrt((100 * a) \div d, 0, 40000)
    IN  IF n < 2 THEN NaN
        ELSE IF 400 * a >= (2 * s + 1) * (2 * s + 1) * d THEN s + 1 ELSE s

\* lines 503-509: groupby('Region') drops the rows whose Region is NaN and
\* orders the groups by key
stats(gov_data) ==
    LET present(region) == \E i \in 1..Len(gov_data) : gov_data[i].Region = region
        keys == SelectSeq(RegionOrder, present)
    IN  [k \in 1..Len(keys) |->
            LET x == GroupRates(gov_data, keys[k])
            IN  [Region |-> keys[k], Moyenne |-> Mean(x), Mediane |-> Median(x),
                 Min |-> Min(x), Max |-> Max(x), Ecart_type |-> Std(x)]]

\* line 485: if df_poverty is not None
StatsGuard == ~df_poverty.isNone

RenderComparisons ==
    /\ pc = "loaded"
    /\ pc' = "rendered"
    /\ view' = IF ~StatsGuard
               THEN [BlankView EXCEPT !.page = "Comparaisons & Corrélations"]
               ELSE IF df_poverty.isNone
               THEN \* None['Type'] raises TypeError
                    [BlankView EXCEPT !.page = "Comparaisons & Corrélations",
                                      !.aborted = TRUE]
               ELSE [BlankView EXCEPT
                       !.page = "Comparaisons & Corrélations",
                       !.stats_shown = TRUE,
                       !.stats = stats(SelectSeq(df_poverty.rows, IsGouvernorat))]
    /\ UNCHANGED <<csv_file, geo_file, cache, df_poverty, geojson_data, load_error>>

----------------------------------------------------------------------------

Next ==
    \/ LoadData
    \/ RenderOverview
    \/ RenderRegion
    \/ RenderGovernorate
    \/ RenderDelegations
    \/ RenderComparisons
    \/ Rerun

Spec == Init /\ [][Next]_vars
----------------------------------------------------------------------------
(* Properties.                                                             *)

\* the seven region labels
RegionLabels ==
    {"Grand Tunis", "Nord-Est", "Nord-Ouest", "Centre-Est", "Centre-Ouest",
     "Sud-Est", "Sud-Ouest"}

SummaryRegions == {region_summary.Region[i] : i \in 1..Len(region_summary.Region)}

Loaded == pc # "start" /\ ~df_poverty.isNone

\* the Region values of the loaded table
ProducedRegions == {df_poverty.rows[i].Region : i \in 1..Len(df_poverty.rows)}

\* the raw table holds a name that is no key of the lookup
HasUnmappedName ==
    \E i \in 1..Len(csv_file.rows) :
        csv_file.rows[i].Governorate \notin DOMAIN region_map

\* C1 (as claimed): every governorate row of the table load_data returns
\* carries one of the seven region labels, whatever names the raw table
\* holds.
C1_PartitionTotality ==
    Loaded => \A i \in 1..Len(df_poverty.rows) :
                 df_poverty.rows[i].Region \in RegionLabels

\* C2 (as claimed): when the raw table holds a name that is no key of the
\* lookup, load_data fails: it returns no table.
C2_UnmappedNameFails ==
    (pc # "start" /\ csv_file.present /\ geo_file.present /\ HasUnmappedName)
        => (df_poverty.isNone /\ load_error)

\* C3 (as claimed, on a table that has rows and only mapped names): the
\* distinct Region values of the loaded table are exactly the region names
\* of the summary table.
C3_RegionSetEqual ==
    (Loaded /\ df_poverty.rows # <<>> /\ ~HasUnmappedName)
        => ProducedRegions = SummaryRegions

\* every region of the summary table has a governorate in the raw table
CoversEveryRegion ==
    \A r \in SummaryRegions :
        \E i \in 1..Len(csv_file.rows) :
            /\ csv_file.rows[i].Governorate \in DOMAIN region_map
            /\ region_map[csv_file.rows[i].Governorate] = r

\* C3 (amended): the labels of the lookup are the region names of the
\* summary table; the distinct non-null Region values of the loaded table
\* are among them, and are all of them when the raw table holds a
\* governorate of every region.
C3_RegionSetConsistency ==
    /\ {region_map[n] : n \in DOMAIN region_map} = SummaryRegions
    /\ Loaded => /\ (ProducedRegions \ {NaNStr}) \subseteq SummaryRegions
                 /\ CoversEveryRegion => (ProducedRegions \ {NaNStr}) = SummaryRegions

C3_Witness ==
    /\ Loaded
    /\ pc = "loaded"
    /\ Len(df_poverty.rows) = Cardinality(SummaryRegions)
    /\ ProducedRegions = SummaryRegions

GovPage == pc = "rendered" /\ view.gov_shown

\* the rows of the canonical table, as the governorate page filters them
GovRows == SelectSeq(df_poverty.rows, IsGouvernorat)

\* C4: with RankShown(i) the rank the page shows when row i is the selected
\* one, the rank shown is 1 + the number of rows whose rate is strictly
\* greater than the selected governorate's; a greater rate has a smaller
\* rank and equal rates have the same rank.
C4_Rank ==
    GovPage =>
      \A rows \in {GovRows} :
        LET n == Len(rows)
            rate(i) == rows[i].Poverty_Rate
            RankShown(i) == Rank(rows, rate(i))
        IN  /\ view.rank = 1 + Cardinality({i \in 1..n :
                                 /\ rate(i) # NaN
                                 /\ view.gov_rate # NaN
                                 /\ rate(i) > view.gov_rate})
            /\ \A a, b \in 1..n :
                 (rate(a) # NaN /\ rate(b) # NaN) =>
                    /\ rate(a) > rate(b) => RankShown(a) < RankShown(b)
                    /\ rate(a) = rate(b) => RankShown(a) = RankShown(b)

C4_Witness ==
    /\ GovPage
    /\ view.rank = 2
    /\ Len(GovRows) >= 3
    /\ \E a, b \in 1..Len(GovRows) :
          /\ a # b
          /\ GovRows[a].Name = view.selected_gov
          /\ GovRows[b].Poverty_Rate = view.gov_rate

\* the positions (frame index) a selection holds
Selected(top) == {top[k].idx + 1 : k \in 1..Len(top)}

\* a selection is made of rows of the frame, each at most once
IsSelection(top) ==
    /\ \A k \in 1..Len(top) :
         /\ top[k].idx + 1 \in 1..Len(GovRows)
         /\ top[k].Name = GovRows[top[k].idx + 1].Name
         /\ top[k].Poverty_Rate = GovRows[top[k].idx + 1].Poverty_Rate
         /\ top[k].Region = GovRows[top[k].idx + 1].Region
    /\ Cardinality(Selected(top)) = Len(top)
    /\ Len(top) = IF Len(GovRows) >= TopN THEN TopN ELSE Len(GovRows)

\* C5: the top-5 selection holds exactly 5 records (all of them below 5)
\* whose rates are >= the rate of every excluded record, the bottom-5
\* selection 5 records whose rates are <= every excluded one; a record
\* without a rate is selected only when no record with a rate is excluded.
C5_TopN ==
    GovPage =>
        LET n == Len(GovRows)
            rate(i) == GovRows[i].Poverty_Rate
            poor == Selected(view.top5_poor)
            rich == Selected(view.top5_rich)
        IN  /\ IsSelection(view.top5_poor)
            /\ IsSelection(view.top5_rich)
            /\ \A s \in poor : \A e \in (1..n) \ poor :
                 /\ (rate(s) # NaN /\ rate(e) # NaN) => rate(s) >= rate(e)
                 /\ rate(s) = NaN => rate(e) = NaN
            /\ \A s \in rich : \A e \in (1..n) \ rich :
                 /\ (rate(s) # NaN /\ rate(e) # NaN) => rate(s) <= rate(e)
                 /\ rate(s) = NaN => rate(e) = NaN

C5_Witness ==
    /\ GovPage
    /\ Len(view.top5_poor) = TopN
    /\ Len(GovRows) > TopN
    /\ \E s \in Selected(view.top5_poor) :
         \E e \in (1..Len(GovRows)) \ Selected(view.top5_poor) :
            /\ GovRows[s].Poverty_Rate > GovRows[e].Poverty_Rate
            /\ s > e
    /\ \E s \in Selected(view.top5_poor) :
         \E e \in (1..Len(GovRows)) \ Selected(view.top5_poor) :
            GovRows[s].Poverty_Rate = GovRows[e].Poverty_Rate

RegionPage == pc = "rendered" /\ view.page = "Analyse par Région"

\* C6 (as claimed): the estimated poor population shown for a region is
\* population * rate / 100 rounded to the nearest unit.
C6_PoorPopulationRounded ==
    RegionPage =>
        LET exact1000 == view.region_population * view.region_taux
            shown1000 == 1000 * view.poor_population
        IN  /\ 2 * (shown1000 - exact1000) <= 1000
            /\ 2 * (exact1000 - shown1000) <= 1000

\* the sign of d is the sign of rate - 15.3
SignAgrees(d, rate) ==
    /\ d = rate - NationalRate
    /\ d > 0 <=> rate > NationalRate
    /\ d < 0 <=> rate < NationalRate
    /\ d = 0 <=> rate = NationalRate

\* C7: on the region view and on the governorate view the deviation is the
\* rate minus the constant 15.3, whatever the table holds: positive iff the
\* rate is above 15.3, negative iff below, zero iff equal.
C7_DeviationSign ==
    /\ RegionPage => SignAgrees(view.region_diff, view.region_taux)
    /\ (GovPage /\ view.gov_rate # NaN) => SignAgrees(view.diff, view.gov_rate)

C7_Witness ==
    /\ GovPage
    /\ view.gov_rate = NationalRate
    /\ view.diff = 0
    /\ \E i \in 1..Len(GovRows) : GovRows[i].Poverty_Rate > NationalRate

StatsPage == pc = "rendered" /\ view.stats_shown

\* the positions of the rows mapped to region r, and those with a rate
Members(rows, r) == {i \in 1..Len(rows) : rows[i].Region = r}
Rated(rows, r) == {i \in Members(rows, r) : rows[i].Poverty_Rate # NaN}

RECURSIVE SumOver(_, _)
SumOver(rows, S) ==
    IF S = {} THEN 0
    ELSE LET i == CHOOSE j \in S : TRUE
         IN  rows[i].Poverty_Rate + SumOver(rows, S \ {i})

\* m (hundredths) is the median of the rates (tenths) at the positions S
IsMedian(rows, S, m) ==
    LET below == {i \in S : 10 * rows[i].Poverty_Rate < m}
        above == {i \in S : 10 * rows[i].Poverty_Rate > m}
        lower == {rows[i].Poverty_Rate : i \in S \ above}
        upper == {rows[i].Poverty_Rate : i \in S \ below}
        a == CHOOSE v \in lower : \A w \in lower : w <= v
        b == CHOOSE v \in upper : \A w \in upper : v <= w
    IN  /\ 2 * Cardinality(below) <= Cardinality(S)
        /\ 2 * Cardinality(above) <= Cardinality(S)
        /\ lower # {} /\ upper # {}
        /\ m = 5 * (a + b)

\* one line of the statistics table per region present among the rows
OneLinePerRegion(rows) ==
    /\ {view.stats[k].Region : k \in 1..Len(view.stats)}
         = {rows[i].Region : i \in 1..Len(rows)} \ {NaNStr}
    /\ \A j, k \in 1..Len(view.stats) :
         view.stats[j].Region = view.stats[k].Region => j = k

SourceMissing == ~csv_file.present \/ ~geo_file.present

\* C9: when an input file is absent load_data returns (None, None) after
\* reporting it, and every page renders to its end without reading the
\* table or the boundaries: no map, no governorate figures, no statistics.
C9_SourceNotFoundRecovery ==
    SourceMissing =>
        /\ pc # "start" =>
             df_poverty.isNone /\ geojson_data.isNone /\ load_error
        /\ pc = "rendered" =>
             /\ view.page \in Pages
             /\ ~view.aborted
             /\ ~view.map_shown /\ ~view.gov_shown /\ ~view.stats_shown

C9_Witness ==
    /\ SourceMissing
    /\ csv_file.present
    /\ pc = "rendered"
    /\ view.page = "Analyse par Gouvernorat"
    /\ ~view.aborted

\* C10 (as claimed): the governorate page fails when the selected record
\* has no rate; it shows neither a rank nor a deviation for it.
C10_MissingValueFails ==
    (pc = "rendered" /\ view.page = "Analyse par Gouvernorat"
        /\ \E i \in 1..Len(GovRows) :
              /\ GovRows[i].Name = view.selected_gov
              /\ GovRows[i].Poverty_Rate = NaN)
        => (view.aborted /\ ~view.gov_shown)

C13_OutputShape ==
    Loaded =>
        /\ Len(df_poverty.rows) = Len(csv_file.rows)
        /\ \A i \in 1..Len(csv_file.rows) :
              /\ df_poverty.rows[i].Name = csv_file.rows[i].Governorate
              /\ df_poverty.rows[i].Poverty_Rate = csv_file.rows[i].Poverty_Rate
              /\ df_poverty.rows[i].Type = "Gouvernorat"
        /\ SelectSeq(df_poverty.rows, IsGouvernorat) = df_poverty.rows
        /\ Len(df_delegations) = 0

\* a table of several rows, not in the order of their names, is loaded
C13_Witness ==
    /\ pc = "loaded"
    /\ ~df_poverty.isNone
    /\ Len(csv_file.rows) = MaxRows
    /\ csv_file.rows[1].Governorate = "Tunis"
    /\ csv_file.rows[2].Governorate = "Ariana"
    /\ df_poverty.rows[1].Name = "Tunis"
    /\ df_poverty.rows[2].Name = "Ariana"

=============================================================================
